---- MODULE Spec2Model ----
(***************************************************************************)
(* Model of the quantile crate (src/src/lib.rs): Quantile::new, Stream     *)
(* with its observation buffer, flush_and_compress / merge_and_insert, the *)
(* invariant function and query.                                           *)
(*                                                                         *)
(* f64 values are modelled by exact rationals [n |-> Int, d |-> Nat \ {0}] *)
(* kept in lowest terms.  The non-finite results a division by zero can    *)
(* produce (inf, NaN), f64::MAX and the saturating `as i64` cast are kept  *)
(* as tagged values, so that each comparison of the code is decided as the *)
(* code decides it.  Observed values and the g of a sample are integral    *)
(* f64 and are modelled by integers.                                       *)
(***************************************************************************)
EXTENDS Integers, Sequences, FiniteSets, TLC

VARIABLES targets, debug_assertions, samples, new_samples, number_items,
          buffer, pc, result, data, quiet, answers, inserted

vars == <<targets, debug_assertions, samples, new_samples, number_items,
          buffer, pc, result, data, quiet, answers, inserted>>

----------------------------------------------------------------------------
(* Bounds of the model *)

MaxObs == 5

NumValues == 2

MaxTargets == 2

MaxHead == 1

MaxTail == 2

----------------------------------------------------------------------------
(* Exact rationals standing for finite f64 values *)

Abs(x) == IF x < 0 THEN -x ELSE x

RECURSIVE Gcd(_, _)
Gcd(a, b) == IF b = 0 THEN a ELSE Gcd(b, a % b)

R(num, den) ==
    LET s == IF den < 0 THEN -1 ELSE 1
        g == Gcd(Abs(num), Abs(den))
    IN  [n |-> (s * num) \div g, d |-> (s * den) \div g]

RInt(i) == [n |-> i, d |-> 1]

RAdd(a, b) == R(a.n * b.d + b.n * a.d, a.d * b.d)

RSub(a, b) == R(a.n * b.d - b.n * a.d, a.d * b.d)

RMul(a, b) == R(a.n * b.n, a.d * b.d)

RLt(a, b) == a.n * b.d < b.n * a.d

RLe(a, b) == a.n * b.d <= b.n * a.d

REq(a, b) == a.n * b.d = b.n * a.d

RMin(a, b) == IF RLt(b, a) THEN b ELSE a

RFloor(a) == a.n \div a.d

(* a / b in f64: x/0 is +inf for x > 0 and NaN for x = 0 (operands >= 0) *)
FDiv(a, b) ==
    IF b.n = 0
    THEN IF a.n = 0 THEN [k |-> "nan", n |-> 0, d |-> 1]
                    ELSE [k |-> "inf", n |-> 0, d |-> 1]
    ELSE LET q == R(a.n * b.d, a.d * b.n) IN [k |-> "fin", n |-> q.n, d |-> q.d]

(* c * x in f64 for a coefficient c that may be inf or NaN and a finite x >= 0 *)
FMul(c, x) ==
    IF c.k = "nan" THEN [k |-> "nan", n |-> 0, d |-> 1]
    ELSE IF c.k = "inf"
         THEN IF x.n = 0 THEN [k |-> "nan", n |-> 0, d |-> 1]
                         ELSE [k |-> "inf", n |-> 0, d |-> 1]
         ELSE LET p == RMul([n |-> c.n, d |-> c.d], x)
              IN  [k |-> "fin", n |-> p.n, d |-> p.d]

F64_MAX == [k |-> "max", n |-> 0, d |-> 1]

(* f64::min(m, x): a NaN operand is ignored; m is finite or f64::MAX *)
FMin(m, x) ==
    IF x.k = "nan" \/ x.k = "inf" THEN m
    ELSE IF m.k = "max" THEN x
         ELSE LET r == RMin([n |-> m.n, d |-> m.d], [n |-> x.n, d |-> x.d])
              IN  [k |-> "fin", n |-> r.n, d |-> r.d]

----------------------------------------------------------------------------
(* Quantile::new *)

Panic == [kind |-> "panic"]

(* as Quantile::new, with the lower bound of the rank made strict *)
Quantile_new_StrictRank(value, error) ==
    IF ~ RLt(RInt(0), value) THEN Panic
    ELSE IF ~ RLe(value, RInt(1)) THEN Panic
    ELSE IF ~ RLe(RInt(0), error) THEN Panic
    ELSE IF ~ RLe(error, RInt(1)) THEN Panic
    ELSE [kind  |-> "quantile",
          value |-> value,
          error |-> error,
          u     |-> FDiv(RMul(RInt(2), error), value),
          v     |-> FDiv(RMul(RInt(2), error), RSub(RInt(1), value))]

Quantile_new(value, error) ==
    IF ~ RLe(RInt(0), value) THEN Panic
    ELSE IF ~ RLe(value, RInt(1)) THEN Panic
    ELSE IF ~ RLe(RInt(0), error) THEN Panic
    ELSE IF ~ RLe(error, RInt(1)) THEN Panic
    ELSE [kind  |-> "quantile",
          value |-> value,
          error |-> error,
          u     |-> FDiv(RMul(RInt(2), error), value),
          v     |-> FDiv(RMul(RInt(2), error), RSub(RInt(1), value))]

----------------------------------------------------------------------------
(* Stream::invariant: the minimum over the targets, starting at f64::MAX *)

Candidate(target, items, r) ==
    IF RLt(r, RMul(target.error, RInt(items)))
    THEN FMul(target.v, RSub(RInt(items), r))
    ELSE FMul(target.u, r)

RECURSIVE InvariantFrom(_, _, _, _, _)
InvariantFrom(tgts, items, r, i, min) ==
    IF i > Len(tgts) THEN min
    ELSE InvariantFrom(tgts, items, r, i + 1,
                       FMin(min, Candidate(tgts[i], items, r)))

Invariant(tgts, items, r) == InvariantFrom(tgts, items, r, 1, F64_MAX)

----------------------------------------------------------------------------
(* Sample { v, g, d }.  d is an i64: sat = TRUE stands for i64::MAX - 1,   *)
(* the result of `f64::MAX.floor() as i64 - 1` (the cast saturates).       *)

Delta(i) == [sat |-> FALSE, n |-> i]

Sample(v, g, d) == [v |-> v, g |-> g, d |-> d]

(* self.invariant(x).floor() as i64 - 1 *)
FloorMinusOne(inv) ==
    IF inv.k = "max" THEN [sat |-> TRUE, n |-> 0]
    ELSE Delta(RFloor([n |-> inv.n, d |-> inv.d]) - 1)

(* g + d as f64 <= inv, where g is a sum of g values *)
WithinInvariant(g, d, inv) ==
    IF inv.k = "max" THEN TRUE
    ELSE IF d.sat THEN FALSE
         ELSE RLe(RInt(g + d.n), [n |-> inv.n, d |-> inv.d])

----------------------------------------------------------------------------
(* Stream::merge_and_insert: st carries new_samples, prev_r, idx,          *)
(* number_items and the record of the values inserted by this flush        *)

(* as merge_and_insert, with a merge that overwrites g instead of adding to it *)
MergeAndInsert_OverwriteG(tgts, st, current) ==
    IF st.new_samples = <<>>
    THEN [st EXCEPT !.new_samples = <<current>>]
    ELSE LET last_idx == Len(st.new_samples)
             prev     == st.new_samples[last_idx]
         IN  IF WithinInvariant(prev.g + current.g, current.d,
                                Invariant(tgts, st.number_items, RInt(st.prev_r)))
             THEN [st EXCEPT !.new_samples[last_idx] =
                                 Sample(current.v, current.g, current.d)]
             ELSE [st EXCEPT !.prev_r = st.prev_r + prev.g,
                             !.new_samples = Append(st.new_samples, current)]

MergeAndInsert(tgts, st, current) ==
    IF st.new_samples = <<>>
    THEN [st EXCEPT !.new_samples = <<current>>]
    ELSE LET last_idx == Len(st.new_samples)
             prev     == st.new_samples[last_idx]
         IN  IF WithinInvariant(prev.g + current.g, current.d,
                                Invariant(tgts, st.number_items, RInt(st.prev_r)))
             THEN [st EXCEPT !.new_samples[last_idx] =
                                 Sample(current.v, prev.g + current.g, current.d)]
             ELSE [st EXCEPT !.prev_r = st.prev_r + prev.g,
                             !.new_samples = Append(st.new_samples, current)]

----------------------------------------------------------------------------
(* Stream::flush_and_compress *)

(* The loops of the crate are unfolded by halving their index range, so   *)
(* that the depth of an evaluation grows with the logarithm of the number  *)
(* of iterations; the iterations run in the order of the code.  The        *)
(* outcome of the first half is a value before the second half starts: the *)
(* guards on it below are always true and only fix the order in which TLC  *)
(* evaluates the two halves.                                               *)

Min(S) == CHOOSE x \in S : \A y \in S : x <= y

(* x placed in the sorted sequence seq, after the elements that are <= x *)
InsertSorted(seq, x) ==
    LET k == Cardinality({i \in 1..Len(seq) : seq[i] <= x})
    IN  SubSeq(seq, 1, k) \o <<x>> \o SubSeq(seq, k + 1, Len(seq))

(* buf[lo..hi] placed one by one in the sorted sequence acc *)
RECURSIVE SortRange(_, _, _, _)
SortRange(buf, acc, lo, hi) ==
    IF lo > hi THEN acc
    ELSE IF lo = hi THEN InsertSorted(acc, buf[lo])
         ELSE LET mid   == (lo + hi) \div 2
                  first == SortRange(buf, acc, lo, mid)
              IN  IF Len(first) >= 0
                  THEN SortRange(buf, first, mid + 1, hi)
                  ELSE first

(* self.buffer.sort_by(|x, y| x.partial_cmp(y).unwrap()) *)
SortBuffer(buf) == SortRange(buf, <<>>, 1, Len(buf))

(* merge_and_insert(&self.samples[idx]); idx += 1, for old[lo..hi] in turn *)
RECURSIVE CommitRange(_, _, _, _, _)
CommitRange(tgts, old, st, lo, hi) ==
    IF lo > hi THEN st
    ELSE IF lo = hi
         THEN [MergeAndInsert(tgts, st, old[lo]) EXCEPT !.idx = st.idx + 1]
         ELSE LET mid   == (lo + hi) \div 2
                  first == CommitRange(tgts, old, st, lo, mid)
              IN  IF first.idx >= 0
                  THEN CommitRange(tgts, old, first, mid + 1, hi)
                  ELSE first

(* as the first while loop of flush_and_compress, never entered *)
CommitSmaller_Skipped(tgts, old, st, value) == st

(* while idx < self.samples.len() && self.samples[idx].v <= value: the     *)
(* loop stops before the first old sample from idx on that is > value      *)
CommitSmaller(tgts, old, st, value) ==
    LET greater == {k \in (st.idx + 1)..Len(old) : ~ (old[k].v <= value)}
        stop    == IF greater = {} THEN Len(old) ELSE Min(greater) - 1
    IN  CommitRange(tgts, old, st, st.idx + 1, stop)

(* as the choice of the initial delta, with 0 for the end only *)
NewDelta_EndOnly(tgts, old, st) ==
    IF st.idx = Len(old)
    THEN Delta(0)
    ELSE FloorMinusOne(Invariant(tgts, st.number_items,
                                 RInt(st.prev_r + old[st.idx + 1].g)))

(* the initial delta of a buffered value *)
NewDelta(tgts, old, st) ==
    IF st.idx = 0 \/ st.idx = Len(old)
    THEN Delta(0)
    ELSE FloorMinusOne(Invariant(tgts, st.number_items,
                                 RInt(st.prev_r + old[st.idx + 1].g)))

(* one iteration of `for value in self.buffer.iter()` *)
InsertValue(tgts, old, st0, value) ==
    LET st         == CommitSmaller(tgts, old, st0, value)
        new_sample == Sample(value, 1, NewDelta(tgts, old, st))
        note       == [v         |-> value,
                       d         |-> new_sample.d,
                       idx       |-> st.idx,
                       old_len   |-> Len(old),
                       committed |-> Len(st.new_samples),
                       prev_r    |-> st.prev_r,
                       next_g    |-> IF st.idx < Len(old) THEN old[st.idx + 1].g ELSE 0,
                       items     |-> st.number_items]
        st1        == MergeAndInsert(tgts, st, new_sample)
    IN  [st1 EXCEPT !.number_items = st.number_items + 1,
                    !.inserted = Append(st.inserted, note)]

(* for value in self.buffer.iter(), for sorted[lo..hi] in turn *)
RECURSIVE InsertRange(_, _, _, _, _, _)
InsertRange(tgts, old, st, sorted, lo, hi) ==
    IF lo > hi THEN st
    ELSE IF lo = hi THEN InsertValue(tgts, old, st, sorted[lo])
         ELSE LET mid   == (lo + hi) \div 2
                  first == InsertRange(tgts, old, st, sorted, lo, mid)
              IN  IF first.idx >= 0
                  THEN InsertRange(tgts, old, first, sorted, mid + 1, hi)
                  ELSE first

InsertAll(tgts, old, st, sorted) == InsertRange(tgts, old, st, sorted, 1, Len(sorted))

(* while idx < self.samples.len(): the values after the last insertion *)
CommitRest(tgts, old, st) == CommitRange(tgts, old, st, st.idx + 1, Len(old))

(* as flush_and_compress, without the early return on an empty buffer *)
FlushAndCompress_NoEarlyReturn(tgts, old, scratch, items, buf) ==
    LET st0 == [new_samples |-> scratch, prev_r |-> 0, idx |-> 0,
                number_items |-> items, inserted |-> <<>>]
        st1 == InsertAll(tgts, old, st0, SortBuffer(buf))
        st2 == CommitRest(tgts, old, st1)
    IN  [samples      |-> st2.new_samples,
         new_samples  |-> <<>>,
         number_items |-> st2.number_items,
         buffer       |-> <<>>,
         inserted     |-> st2.inserted]

(* the Stream fields after flush_and_compress, with the record of the      *)
(* values it inserted                                                      *)
FlushAndCompress(tgts, old, scratch, items, buf) ==
    IF buf = <<>>
    THEN [samples |-> old, new_samples |-> scratch, number_items |-> items,
          buffer |-> buf, inserted |-> <<>>]
    ELSE LET st0 == [new_samples |-> scratch, prev_r |-> 0, idx |-> 0,
                     number_items |-> items, inserted |-> <<>>]
             st1 == InsertAll(tgts, old, st0, SortBuffer(buf))
             st2 == CommitRest(tgts, old, st1)
         IN  [samples      |-> st2.new_samples,
              new_samples  |-> <<>>,
              number_items |-> st2.number_items,
              buffer       |-> <<>>,
              inserted     |-> st2.inserted]

----------------------------------------------------------------------------
(* Stream::query *)

(* the debug_assert! of query: exactly one target has the queried rank *)
Tracked(tgts, quantile) ==
    Cardinality({i \in 1..Len(tgts) : REq(tgts[i].value, quantile)}) = 1

(* t = quantile * n + self.invariant(quantile * n) / 2.0 *)
QueryRank(tgts, items, quantile) ==
    LET qn  == RMul(quantile, RInt(items))
        inv == Invariant(tgts, items, qn)
    IN  IF inv.k = "max" THEN [k |-> "halfmax", n |-> 0, d |-> 1]
        ELSE LET t == RAdd(qn, RMul([n |-> inv.n, d |-> inv.d], R(1, 2)))
             IN  [k |-> "fin", n |-> t.n, d |-> t.d]

(* r + current.g + current.d as f64 > t *)
Exceeds(r, current, t) ==
    IF t.k = "halfmax" THEN FALSE
    ELSE IF current.d.sat THEN TRUE
         ELSE RLt([n |-> t.n, d |-> t.d], RInt(r + current.g + current.d.n))

(* the sum of the g of smp[lo..hi] *)
RECURSIVE SumG(_, _, _)
SumG(smp, lo, hi) ==
    IF lo > hi THEN 0
    ELSE IF lo = hi THEN smp[lo].g
         ELSE LET mid == (lo + hi) \div 2
              IN  SumG(smp, lo, mid) + SumG(smp, mid + 1, hi)

(* the iterations of `for i in 1..self.samples.len() - 1` that return: at  *)
(* iteration i, r is the sum of samples[0..i-1].g and current is           *)
(* samples[i], which is smp[i + 1]                                         *)
Returning(smp, t) ==
    {i \in 1..(Len(smp) - 2) : Exceeds(SumG(smp, 1, i), smp[i + 1], t)}

(* as the scan of query, returning the current sample instead of the previous one *)
Scan_Current(smp, t) ==
    IF Returning(smp, t) = {} THEN smp[Len(smp)].v
    ELSE smp[Min(Returning(smp, t)) + 1].v

(* the scan of query: samples[i - 1].v at the first iteration that         *)
(* returns, the value of the last sample if none does                      *)
Scan(smp, t) ==
    IF Returning(smp, t) = {} THEN smp[Len(smp)].v
    ELSE smp[Min(Returning(smp, t))].v

(* the value query returns on the flushed stream; 0 stands for 0.0 *)
QueryValue(tgts, smp, items, quantile) ==
    IF smp = <<>> THEN 0
    ELSE Scan(smp, QueryRank(tgts, items, quantile))

----------------------------------------------------------------------------
(* Inputs *)

BUFFER_SIZE == 500

Values == 1..NumValues

Ranks == {R(0, 1), R(1, 4), R(1, 2)}

NoAnswer == [kind |-> "none"]

Q(value, error) == Quantile_new(value, error)

TargetLists ==
    { <<>>,
      << Q(R(1, 2), R(1, 4)) >>,
      << Q(R(1, 4), R(1, 8)) >>,
      << Q(R(0, 1), R(1, 8)) >>,
      << Q(R(1, 2), R(1, 8)), Q(R(3, 4), R(1, 8)) >>,
      << Q(R(1, 2), R(1, 4)), Q(R(1, 2), R(1, 8)) >> }

----------------------------------------------------------------------------
(* Stream::new, for a build with or without debug assertions *)

StreamNew(quantiles) ==
    /\ targets = quantiles
    /\ samples = <<>>
    /\ new_samples = <<>>
    /\ number_items = 0
    /\ buffer = <<>>

Init ==
    /\ \E quantiles \in TargetLists : StreamNew(quantiles)
    /\ debug_assertions \in BOOLEAN
    /\ pc = "run"
    /\ result = NoAnswer
    /\ data = <<>>
    /\ quiet = 0
    /\ answers = [q \in Ranks |-> NoAnswer]
    /\ inserted = <<>>

(* the Stream fields are replaced by the outcome f of flush_and_compress *)
Flushed(f) ==
    /\ samples' = f.samples
    /\ new_samples' = f.new_samples
    /\ number_items' = f.number_items
    /\ buffer' = f.buffer
    /\ inserted' = f.inserted

(* as Stream::observe, with the length of the buffer tested before the push *)
DoObserve_TestBeforePush(value) ==
    /\ pc = "run"
    /\ IF Len(buffer) = BUFFER_SIZE
       THEN LET f == FlushAndCompress(targets, samples, new_samples,
                                      number_items, buffer)
            IN  /\ samples' = f.samples
                /\ new_samples' = f.new_samples
                /\ number_items' = f.number_items
                /\ buffer' = Append(f.buffer, value)
                /\ inserted' = f.inserted
       ELSE /\ buffer' = Append(buffer, value)
            /\ inserted' = <<>>
            /\ UNCHANGED <<samples, new_samples, number_items>>
    /\ data' = InsertSorted(data, value)
    /\ result' = [kind |-> "unit"]
    /\ quiet' = 0
    /\ answers' = [q \in DOMAIN answers |-> NoAnswer]
    /\ UNCHANGED <<targets, debug_assertions, pc>>

(* Stream::observe *)
DoObserve(value) ==
    /\ pc = "run"
    /\ LET pushed == Append(buffer, value)
       IN  IF Len(pushed) = BUFFER_SIZE
           THEN Flushed(FlushAndCompress(targets, samples, new_samples,
                                         number_items, pushed))
           ELSE /\ buffer' = pushed
                /\ inserted' = <<>>
                /\ UNCHANGED <<samples, new_samples, number_items>>
    /\ data' = InsertSorted(data, value)
    /\ result' = [kind |-> "unit"]
    /\ quiet' = 0
    /\ answers' = [q \in DOMAIN answers |-> NoAnswer]
    /\ UNCHANGED <<targets, debug_assertions, pc>>

Observe == \E value \in Values : Len(data) < MaxObs /\ DoObserve(value)

(* Stream::flush_and_compress called on its own *)
Flush ==
    /\ pc = "run"
    /\ Flushed(FlushAndCompress(targets, samples, new_samples, number_items, buffer))
    /\ result' = [kind |-> "unit"]
    /\ quiet' = IF quiet < 2 THEN quiet + 1 ELSE 2
    /\ UNCHANGED <<targets, debug_assertions, pc, data, answers>>

(* Stream::query *)
DoQuery(quantile) ==
    /\ pc = "run"
    /\ IF debug_assertions /\ ~ Tracked(targets, quantile)
       THEN /\ pc' = "panicked"
            /\ result' = [kind |-> "panic", rank |-> quantile]
            /\ UNCHANGED <<samples, new_samples, number_items, buffer,
                           inserted, quiet, answers>>
       ELSE LET f   == FlushAndCompress(targets, samples, new_samples,
                                        number_items, buffer)
                ret == [kind |-> "value", rank |-> quantile,
                        ret |-> QueryValue(targets, f.samples, f.number_items, quantile)]
            IN  /\ Flushed(f)
                /\ result' = ret
                /\ quiet' = IF quiet < 2 THEN quiet + 1 ELSE 2
                /\ answers' = IF answers[quantile] = NoAnswer
                              THEN [answers EXCEPT ![quantile] = ret]
                              ELSE answers
                /\ pc' = pc
    /\ UNCHANGED <<targets, debug_assertions, data>>

Query == \E quantile \in Ranks : DoQuery(quantile)

Next == Observe \/ Flush \/ Query

Spec == Init /\ [][Next]_vars

----------------------------------------------------------------------------
(* The scenario of integration_test_simple and of the crate's usage        *)
(* example: the integers 1..100 observed in increasing order, then queried *)

LastInteger == 100

SimpleRanks == {R(1, 2), R(9, 10)}

SimpleTargets == << Q(R(1, 2), R(1, 200)), Q(R(9, 10), R(1, 200)) >>

InitSimple ==
    /\ StreamNew(SimpleTargets)
    /\ debug_assertions \in BOOLEAN
    /\ pc = "run"
    /\ result = NoAnswer
    /\ data = <<>>
    /\ quiet = 0
    /\ answers = [q \in SimpleRanks |-> NoAnswer]
    /\ inserted = <<>>

ObserveNext == Len(data) < LastInteger /\ DoObserve(Len(data) + 1)

QuerySimple ==
    \E quantile \in SimpleRanks : Len(data) = LastInteger /\ DoQuery(quantile)

NextSimple == ObserveNext \/ QuerySimple

SpecSimple == InitSimple /\ [][NextSimple]_vars

----------------------------------------------------------------------------
(* A stream that fills its buffer up to BUFFER_SIZE.  The values of a long *)
(* run of observe calls follow a fixed pattern; the stream may be flushed  *)
(* after its first MaxHead observations, and every operation and value is  *)
(* open once the buffer is within MaxTail values of BUFFER_SIZE.           *)

BatchTargets == << Q(R(1, 2), R(1, 8)), Q(R(3, 4), R(1, 8)) >>

InitBatch ==
    /\ StreamNew(BatchTargets)
    /\ debug_assertions \in BOOLEAN
    /\ pc = "run"
    /\ result = NoAnswer
    /\ data = <<>>
    /\ quiet = 0
    /\ answers = [q \in Ranks |-> NoAnswer]
    /\ inserted = <<>>

AtHead == Len(data) <= MaxHead

NearFull == Len(buffer) >= BUFFER_SIZE - MaxTail

ObserveBatch ==
    \E value \in Values :
        /\ Len(data) < BUFFER_SIZE + MaxHead + 1
        /\ ~ NearFull => value = 1 + (Len(data) % NumValues)
        /\ DoObserve(value)

FlushBatch == (AtHead \/ NearFull) /\ Flush

QueryBatch == NearFull /\ Query

NextBatch == ObserveBatch \/ FlushBatch \/ QueryBatch

SpecBatch == InitBatch /\ [][NextBatch]_vars

----------------------------------------------------------------------------
(* Building the vector of targets handed to Stream::new, one Quantile::new *)
(* at a time, from arguments inside and outside [0, 1]                     *)

ValueArgs == {R(-1, 4), R(0, 1), R(1, 2), R(1, 1), R(5, 4)}

ErrorArgs == {R(-1, 8), R(0, 1), R(1, 8), R(1, 1), R(9, 8)}

InitNew ==
    /\ targets = <<>>
    /\ samples = <<>>
    /\ new_samples = <<>>
    /\ number_items = 0
    /\ buffer = <<>>
    /\ debug_assertions \in BOOLEAN
    /\ pc = "new"
    /\ result = NoAnswer
    /\ data = <<>>
    /\ quiet = 0
    /\ answers = [q \in Ranks |-> NoAnswer]
    /\ inserted = <<>>

NewQuantile ==
    \E value \in ValueArgs, error \in ErrorArgs :
        /\ pc = "new"
        /\ Len(targets) < MaxTargets
        /\ LET quantile == Quantile_new(value, error)
           IN  IF quantile = Panic
               THEN /\ pc' = "panicked"
                    /\ result' = [kind |-> "panic", value |-> value, error |-> error]
                    /\ UNCHANGED targets
               ELSE /\ targets' = Append(targets, quantile)
                    /\ result' = [kind |-> "quantile", value |-> value, error |-> error]
                    /\ pc' = pc
        /\ UNCHANGED <<debug_assertions, samples, new_samples, number_items,
                       buffer, data, quiet, answers, inserted>>

NextNew == NewQuantile

SpecNew == InitNew /\ [][NextNew]_vars

----------------------------------------------------------------------------
(* Properties *)

Configured(quantile) == \E i \in 1..Len(targets) : REq(targets[i].value, quantile)

InUnitInterval(x) == RLe(RInt(0), x) /\ RLe(x, RInt(1))

(* C1: a value returned by query(q), for a target (q, e) of the stream and  *)
(* n >= 1 observations, lies between sorted[floor(n(q-e))] and             *)
(* sorted[floor(n(q+e))] whenever both indices are within 0..n-1.          *)
C1_AccuracyBound ==
    (result.kind = "value" /\ Len(data) >= 1) =>
        \A i \in 1..Len(targets) :
            REq(targets[i].value, result.rank) =>
                LET n  == Len(data)
                    lo == RFloor(RMul(RInt(n), RSub(targets[i].value, targets[i].error)))
                    hi == RFloor(RMul(RInt(n), RAdd(targets[i].value, targets[i].error)))
                IN  (lo >= 0 /\ hi <= n - 1) =>
                        (data[lo + 1] <= result.ret /\ result.ret <= data[hi + 1])

(* C2: query never returns a value for a rank that no target has. *)
C2_UntrackedRejected ==
    result.kind = "value" => Configured(result.rank)

(* C3: the g of the samples sum to number_items, and together with the     *)
(* values still buffered they account for every observe call.              *)
C3_CountConservation ==
    /\ SumG(samples, 1, Len(samples)) + Len(buffer) = Len(data)
    /\ SumG(samples, 1, Len(samples)) = number_items

C3_Witness ==
    /\ buffer # <<>>
    /\ Len(samples) >= 2
    /\ \E i \in 1..Len(samples) : samples[i].g >= 2

(* C4: the samples of the summary are non-decreasing in value. *)
C4_SamplesOrdered ==
    \A i \in 1..(Len(samples) - 1) : samples[i].v <= samples[i + 1].v

C4_Witness ==
    /\ Len(samples) >= 3
    /\ samples[1].v < samples[Len(samples)].v
    /\ \E k \in 1..Len(inserted) :
           /\ 0 < inserted[k].idx
           /\ inserted[k].idx < inserted[k].old_len

(* C5: Quantile::new(rank, error) produces a target exactly when both rank *)
(* and error lie in [0, 1], bounds included, and fails otherwise.          *)
C5_ConstructionIffInRange ==
    (pc \in {"new", "panicked"} /\ result.kind \in {"quantile", "panic"}) =>
        /\ (result.kind = "quantile") <=>
               (InUnitInterval(result.value) /\ InUnitInterval(result.error))
        /\ result.kind = "quantile" =>
               /\ targets[Len(targets)].value = result.value
               /\ targets[Len(targets)].error = result.error

C5_Witness ==
    /\ pc = "panicked"
    /\ Len(targets) = 1
    /\ targets[1].value = R(0, 1)
    /\ targets[1].error = R(1, 1)

(* C6: a flush or query that follows a flush or query, with no observe in   *)
(* between, leaves the samples, number_items and the buffer unchanged, and *)
(* a query then returns what the first query of that rank returned.        *)
C6_FlushQueryIdempotent ==
    [][ (quiet >= 1 /\ quiet' >= 1) =>
            /\ samples' = samples
            /\ number_items' = number_items
            /\ buffer' = buffer
            /\ new_samples' = new_samples
            /\ result'.kind = "value" => answers[result'.rank] \in {NoAnswer, result'}
      ]_vars

C6_Witness ==
    /\ quiet = 2
    /\ Len(samples) >= 2
    /\ result.kind = "value"
    /\ \E q \in DOMAIN answers : q # result.rank /\ answers[q] # NoAnswer

(* C7: after 1, 2, ..., 100 observed in increasing order with targets       *)
(* (0.5, 0.005) and (0.9, 0.005), query(0.5) is 50 and query(0.9) is 90.   *)
C7_SimpleExample ==
    (result.kind = "value" /\ Len(data) = LastInteger) =>
        /\ REq(result.rank, R(1, 2)) => result.ret = 50
        /\ REq(result.rank, R(9, 10)) => result.ret = 90

C7_Witness ==
    /\ targets = SimpleTargets
    /\ Len(data) = LastInteger
    /\ result.kind = "value"
    /\ result.rank = R(9, 10)
    /\ answers[R(1, 2)] # NoAnswer

(* C8: with no observation, query of a configured rank returns 0.0 and     *)
(* does not fail.                                                          *)
C8_EmptyReturnsZero ==
    (pc \in {"run", "panicked"} /\ data = <<>>
        /\ result.kind \in {"value", "panic"} /\ Configured(result.rank)) =>
        (result.kind = "value" /\ result.ret = 0)

(* C9: with exactly one observation x, query of a configured rank returns x. *)
C9_OneObservation ==
    (pc \in {"run", "panicked"} /\ Len(data) = 1
        /\ result.kind \in {"value", "panic"} /\ Configured(result.rank)) =>
        (result.kind = "value" /\ result.ret = data[1])

(* C10, as stated: a buffered value gets delta 0 when nothing was committed *)
(* before it or no old sample remains after it, and otherwise              *)
(* floor(invariant(prev_r + g of the next old sample)) - 1.                *)
C10_DeltaZeroAtStartOrEnd ==
    \A k \in 1..Len(inserted) :
        LET e == inserted[k]
        IN  IF e.committed = 0 \/ e.idx = e.old_len
            THEN e.d = Delta(0)
            ELSE e.d = FloorMinusOne(Invariant(targets, e.items,
                                               RInt(e.prev_r + e.next_g)))

(* C10, amended: a buffered value gets delta 0 when no old sample was      *)
(* committed before it or no old sample remains after it, and otherwise    *)
(* floor(invariant(prev_r + g of the next old sample)) - 1.                *)
C10_DeltaZeroBeforeOrAfterOld ==
    \A k \in 1..Len(inserted) :
        LET e == inserted[k]
        IN  IF e.idx = 0 \/ e.idx = e.old_len
            THEN e.d = Delta(0)
            ELSE e.d = FloorMinusOne(Invariant(targets, e.items,
                                               RInt(e.prev_r + e.next_g)))

C10_Witness ==
    \E k \in 1..Len(inserted) :
        /\ 0 < inserted[k].idx
        /\ inserted[k].idx < inserted[k].old_len
        /\ inserted[k].committed > 0
        /\ inserted[k].d # Delta(0)

(* C11: an observe call that leaves the buffer below BUFFER_SIZE only       *)
(* appends its value to the buffer and leaves the samples and number_items *)
(* unchanged; the observe call that brings the buffer to BUFFER_SIZE       *)
(* flushes every buffered value into the samples and leaves the buffer     *)
(* empty; after every operation the buffer holds fewer than BUFFER_SIZE    *)
(* values.                                                                 *)
C11_BufferingProtocol ==
    /\ [](Len(buffer) < BUFFER_SIZE)
    /\ [][ /\ Len(data') # Len(data) =>
                 \E value \in Values : data' = InsertSorted(data, value)
           /\ \A value \in Values :
                 data' = InsertSorted(data, value) =>
                     LET pushed == Append(buffer, value)
                     IN  IF Len(pushed) < BUFFER_SIZE
                         THEN /\ buffer' = pushed
                              /\ samples' = samples
                              /\ new_samples' = new_samples
                              /\ number_items' = number_items
                         ELSE /\ buffer' = <<>>
                              /\ new_samples' = <<>>
                              /\ number_items' = number_items + BUFFER_SIZE
                              /\ SumG(samples', 1, Len(samples')) = number_items'
                              /\ [k \in 1..Len(inserted') |-> inserted'[k].v]
                                     = SortBuffer(pushed)
         ]_vars

C11_Witness ==
    /\ Len(inserted) = BUFFER_SIZE
    /\ quiet = 0
    /\ buffer = <<>>
    /\ number_items = Len(data)
    /\ number_items > BUFFER_SIZE

====
